---- MODULE Spec2Model ----
(***************************************************************************)
(* The three applications of flask-database-starter as one state machine:  *)
(*   part-3  students / teachers / courses   (HTML forms)                   *)
(*   part-4  authors / books                 (JSON API)                     *)
(*   part-6  products                        (HTML forms)                   *)
(* Each run of the model is a run of one of them (variable part); db is the *)
(* SQLite file the application opens and pc says whether the process is     *)
(* starting or serving.  Requests are handled one at a time: one action is  *)
(* one whole request, its commit or its rollback at teardown included.  req *)
(* and resp are the request being answered and its response, pre the store  *)
(* as the request found it, served the number of requests handled so far.   *)
(* The development server answers each request in a thread of its own:     *)
(* SpecConc follows two part-4 requests statement by statement, threads     *)
(* holding each one's place, and Spec leaves threads empty.                 *)
(***************************************************************************)
EXTENDS Integers, Sequences, FiniteSets, TLC

VARIABLES part, pc, db, pre, req, resp, served, threads

vars == <<part, pc, db, pre, req, resp, served, threads>>

(***************************************************************************)
(* Bounds of the model.                                                     *)
(***************************************************************************)
MaxAuthorId == 3
MaxBookId == 3
MaxRowId == 2
MaxTime == 1
MaxKeys == 2
MaxRequests == 2
MaxPage == 3
MaxPerPage == 2

(***************************************************************************)
(* Values.  None is Python's None / JSON null / SQL NULL in a text column,  *)
(* NoneInt the same in an integer column.                                   *)
(***************************************************************************)
None == "None"
NoneInt == 0 - 1

Max(S) == CHOOSE x \in S : \A y \in S : y <= x

\* a presence test that lets the empty string through
Falsy_none(v) == v = None

\* Python truthiness, as `not data.get(k)` uses it
Falsy(v) == v = None \/ v = ""
FalsyInt(v) == v = NoneInt \/ v = 0

(***************************************************************************)
(* The store: one table per model class, a function from primary key to    *)
(* row.                                                                     *)
(***************************************************************************)
EmptyTable == [i \in {} |-> 0]

EmptyDb == [author |-> EmptyTable, book |-> EmptyTable, course |-> EmptyTable,
            student |-> EmptyTable, teacher |-> EmptyTable, product |-> EmptyTable]

\* a key allocator that counts the rows instead
NextId_count(t) == Cardinality(DOMAIN t) + 1

\* INTEGER PRIMARY KEY without AUTOINCREMENT: the next rowid is max(rowid)+1
NextId(t) == IF DOMAIN t = {} THEN 1 ELSE Max(DOMAIN t) + 1

Insert(t, row) == [i \in DOMAIN t \cup {NextId(t)} |-> IF i \in DOMAIN t THEN t[i] ELSE row]

\* a delete that empties the table
Remove_all(t, ids) == [i \in {} |-> t[i]]

Remove(t, ids) == [i \in DOMAIN t \ ids |-> t[i]]

\* Query.get(id): the row with that primary key, if any
Exists(t, id) == id \in DOMAIN t

(***************************************************************************)
(* Responses.                                                               *)
(***************************************************************************)
Json(status, success, error, payload) ==
    [kind |-> "json", status |-> status, success |-> success, error |-> error,
     payload |-> payload]

Fail(status, error) == Json(status, FALSE, error, <<>>)

\* an exception no handler catches: Flask answers 500, the session is removed
\* at teardown and the transaction rolled back
Unhandled(exc) ==
    [kind |-> "exception", status |-> 500, success |-> FALSE, error |-> exc,
     payload |-> <<>>]

\* a start-up function returned normally: the process goes on to app.run()
Returned ==
    [kind |-> "returned", status |-> 0, success |-> TRUE, error |-> None, payload |-> <<>>]

\* a handler's result: the store it leaves and the response it gives
Result(d, r) == [db |-> d, resp |-> r]

(***************************************************************************)
(* part-4: the store's constraints.  SQLite checks NOT NULL and UNIQUE on   *)
(* every statement; foreign keys are declared but PRAGMA foreign_keys is    *)
(* never switched on, so SQLite does not check them.                        *)
(***************************************************************************)
\* Author.name nullable=False
AuthorNotNull(d) == \A a \in DOMAIN d.author : d.author[a].name # None

\* Book.title, Book.author_id nullable=False
BookNotNull(d) ==
    \A b \in DOMAIN d.book : d.book[b].title # None /\ d.book[b].author_id # NoneInt

\* a book table without the unique index
BookIsbnUnique_off(d) == TRUE

\* Book.isbn unique=True: NULLs are distinct from each other
BookIsbnUnique(d) ==
    \A b1, b2 \in DOMAIN d.book :
        (b1 # b2 /\ d.book[b1].isbn # None) => d.book[b1].isbn # d.book[b2].isbn

Constraints4(d) == AuthorNotNull(d) /\ BookNotNull(d) /\ BookIsbnUnique(d)

\* db.session.commit() of part-4: the flush either satisfies the constraints or
\* raises IntegrityError, which no handler catches
Commit4(old, new, ok) ==
    IF Constraints4(new) THEN Result(new, ok) ELSE Result(old, Unhandled("IntegrityError"))

(***************************************************************************)
(* part-4: models                                                           *)
(***************************************************************************)
\* a relationship that loads nothing, so that nothing cascades
Author_books_none(d, id) == {}

\* a relationship that loads every book
Author_books_all(d, id) == DOMAIN d.book

\* Author.books: the relationship loads the books whose author_id is the author's id
Author_books(d, id) == {b \in DOMAIN d.book : d.book[b].author_id = id}

Author_to_dict(d, id) ==
    [id |-> id, name |-> d.author[id].name, bio |-> d.author[id].bio,
     city |-> d.author[id].city, books_count |-> Cardinality(Author_books(d, id))]

Book_to_dict(d, id) ==
    [id |-> id, title |-> d.book[id].title, author_id |-> d.book[id].author_id,
     author_name |-> IF Exists(d.author, d.book[id].author_id)
                     THEN d.author[d.book[id].author_id].name ELSE "Unknown Author",
     year |-> d.book[id].year, isbn |-> d.book[id].isbn,
     created_at |-> d.book[id].created_at]

(***************************************************************************)
(* part-4: author routes.  data is the JSON body: data.keys the keys it     *)
(* carries, data.k the value of key k (None when the key is absent, as      *)
(* data.get(k) gives it).                                                   *)
(***************************************************************************)
\* an author lookup that finds whatever it is asked for
AuthorFound_any(d, author_id) == TRUE

\* Author.query.get(data['author_id']) of create_book and update_book
AuthorFound(d, author_id) == Exists(d.author, author_id)

\* an update that writes every column, present in the body or not
SetIf_always(present, new, old) == new

\* if 'k' in data: row.k = data['k']
SetIf(present, new, old) == IF present THEN new ELSE old

get_authors(d) ==
    Result(d, Json(200, TRUE, None,
                   [count |-> Cardinality(DOMAIN d.author),
                    authors |-> [a \in DOMAIN d.author |-> Author_to_dict(d, a)]]))

get_author(d, id) ==
    IF ~Exists(d.author, id) THEN Result(d, Fail(404, "Author not found"))
    ELSE Result(d, Json(200, TRUE, None,
                        [author |-> Author_to_dict(d, id),
                         books |-> [b \in Author_books(d, id) |-> Book_to_dict(d, b)]]))

create_author(d, data) ==
    IF data.keys = {} THEN Result(d, Fail(400, "No data provided"))
    ELSE IF Falsy(data.name) THEN Result(d, Fail(400, "Name is required"))
    ELSE LET new == [d EXCEPT !.author =
                        Insert(@, [name |-> data.name, bio |-> data.bio, city |-> data.city])]
             id == NextId(d.author)
         IN  Commit4(d, new, Json(201, TRUE, None, Author_to_dict(new, id)))

update_author(d, id, data) ==
    IF ~Exists(d.author, id) THEN Result(d, Fail(404, "Author not found"))
    ELSE IF data.keys = {} THEN Result(d, Fail(400, "No data provided"))
    ELSE LET old == d.author[id]
             row == [name |-> SetIf("name" \in data.keys, data.name, old.name),
                     bio |-> SetIf("bio" \in data.keys, data.bio, old.bio),
                     city |-> SetIf("city" \in data.keys, data.city, old.city)]
             new == [d EXCEPT !.author[id] = row]
         IN  Commit4(d, new, Json(200, TRUE, None, Author_to_dict(new, id)))

\* db.session.delete(author): cascade="all, delete-orphan" deletes the loaded
\* Author.books, then the author
delete_author(d, id) ==
    IF ~Exists(d.author, id) THEN Result(d, Fail(404, "Author not found"))
    ELSE LET new == [d EXCEPT !.book = Remove(@, Author_books(d, id)),
                              !.author = Remove(@, {id})]
         IN  Commit4(d, new, Json(200, TRUE, None, <<>>))

(***************************************************************************)
(* part-4: book routes                                                      *)
(***************************************************************************)
get_book(d, id) ==
    IF ~Exists(d.book, id) THEN Result(d, Fail(404, "Book not found"))
    ELSE Result(d, Json(200, TRUE, None, Book_to_dict(d, id)))

\* Book.query.filter_by(isbn=...).first()
IsbnExists(d, isbn) == \E b \in DOMAIN d.book : d.book[b].isbn = isbn

create_book(d, data, now) ==
    IF data.keys = {} THEN Result(d, Fail(400, "No data provided"))
    ELSE IF Falsy(data.title) \/ FalsyInt(data.author_id)
         THEN Result(d, Fail(400, "Title and author_id are required"))
    ELSE IF ~AuthorFound(d, data.author_id) THEN Result(d, Fail(400, "Author not found"))
    ELSE IF ~Falsy(data.isbn) /\ IsbnExists(d, data.isbn)
         THEN Result(d, Fail(400, "ISBN already exists"))
    ELSE LET new == [d EXCEPT !.book =
                        Insert(@, [title |-> data.title, author_id |-> data.author_id,
                                   year |-> data.year, isbn |-> data.isbn,
                                   created_at |-> now])]
             id == NextId(d.book)
         IN  Commit4(d, new, Json(201, TRUE, None, Book_to_dict(new, id)))

\* The fields of update_book.  The title is assigned before the author lookup;
\* the lookup is a query, so the session autoflushes the pending title first
\* (NOT NULL is checked there).  A 400 after that leaves the flushed change to
\* the rollback at teardown.
update_book_fields(d, id, data) ==
    IF "author_id" \in data.keys /\ "title" \in data.keys /\ data.title = None
    THEN Result(d, Unhandled("IntegrityError"))
    ELSE IF "author_id" \in data.keys /\ ~AuthorFound(d, data.author_id)
    THEN Result(d, Fail(400, "Author not found"))
    ELSE LET old == d.book[id]
             row == [title |-> SetIf("title" \in data.keys, data.title, old.title),
                     author_id |-> SetIf("author_id" \in data.keys, data.author_id,
                                         old.author_id),
                     year |-> SetIf("year" \in data.keys, data.year, old.year),
                     isbn |-> SetIf("isbn" \in data.keys, data.isbn, old.isbn),
                     created_at |-> old.created_at]
             new == [d EXCEPT !.book[id] = row]
         IN  Commit4(d, new, Json(200, TRUE, None, Book_to_dict(new, id)))

\* an update that reads the body before it looks the book up
update_book_body_first(d, id, data) ==
    IF data.keys = {} THEN Result(d, Fail(400, "No data provided"))
    ELSE IF ~Exists(d.book, id) THEN Result(d, Fail(404, "Book not found"))
    ELSE update_book_fields(d, id, data)

update_book(d, id, data) ==
    IF ~Exists(d.book, id) THEN Result(d, Fail(404, "Book not found"))
    ELSE IF data.keys = {} THEN Result(d, Fail(400, "No data provided"))
    ELSE update_book_fields(d, id, data)

delete_book(d, id) ==
    IF ~Exists(d.book, id) THEN Result(d, Fail(404, "Book not found"))
    ELSE Commit4(d, [d EXCEPT !.book = Remove(@, {id})], Json(200, TRUE, None, <<>>))

(***************************************************************************)
(* part-4: the list routes.  args is the query string: args.keys the         *)
(* parameters it carries, args.k the value of parameter k.                  *)
(***************************************************************************)
\* request.args.get(k, default)
ArgGet(args, k, default) == IF k \in args.keys THEN args[k] ELSE default

\* the titles of the model in SQLite's BINARY collation order
TitleOrder == <<"", "Flask Web Development", "Python Crash Course">>
TitleRank(s) == CHOOSE i \in 1..Len(TitleOrder) : TitleOrder[i] = s

allowed_sort_fields == {"id", "title", "year", "created_at"}

\* if sort_by not in allowed_sort_fields: sort_by = 'id'
SortField(sort_by) == IF sort_by \notin allowed_sort_fields THEN "id" ELSE sort_by

\* a chain whose last branch orders by title
OrderColumn_title(sort_by) ==
    IF sort_by \in {"id", "year", "created_at"} THEN sort_by ELSE "title"

\* the if / elif chain of get_books and get_books_sorted: the column ordered by
OrderColumn(sort_by) == IF sort_by \in {"title", "year", "created_at"} THEN sort_by ELSE "id"

\* the value ORDER BY compares; NULL sorts before every value
SortKey(d, b, column) ==
    CASE column = "title" -> TitleRank(d.book[b].title)
      [] column = "year" -> d.book[b].year
      [] column = "created_at" -> d.book[b].created_at
      [] OTHER -> b

\* a direction test that takes every order for ascending
Ascending_always(order) == TRUE

\* Book.c.asc() if order == 'asc' else Book.c.desc()
Ascending(order) == order = "asc"

\* row a comes before row b; rows with equal keys come in rowid order, the
\* order SQLite's sorter leaves them in
Before(d, a, b, column, order) ==
    \/ Ascending(order) /\ SortKey(d, a, column) < SortKey(d, b, column)
    \/ ~Ascending(order) /\ SortKey(d, a, column) > SortKey(d, b, column)
    \/ SortKey(d, a, column) = SortKey(d, b, column) /\ a < b

RECURSIVE OrderBy(_, _, _, _)
\* Book.query.order_by(...): the ids of the rows in result order
OrderBy(d, ids, column, order) ==
    IF ids = {} THEN <<>>
    ELSE LET first == CHOOSE a \in ids : \A b \in ids \ {a} : Before(d, a, b, column, order)
         IN  <<first>> \o OrderBy(d, ids \ {first}, column, order)

\* Flask-SQLAlchemy's paginate: the per_page used for a per_page below 1
default_per_page == 20

Min(a, b) == IF a < b THEN a ELSE b

\* a page count that rounds down
PageCount_floor(total, per_page) == total \div per_page

\* Pagination.pages: ceil(total / per_page), 0 for no rows
PageCount(total, per_page) ==
    IF total = 0 THEN 0 ELSE (total + per_page - 1) \div per_page

\* an offset one page too far
Offset_next(page, per_page) == page * per_page

\* Pagination: offset = (page - 1) * per_page
Offset(page, per_page) == (page - 1) * per_page

\* a flag that is also set on the last page
HasNext_last(page, pages) == page <= pages

\* Pagination.has_next
HasNext(page, pages) == page < pages

\* query.paginate(page=page, per_page=per_page, error_out=False) over the rows
\* in result order: a page below 1 becomes 1, a per_page below 1 the default
paginate(rows, page_arg, per_page_arg) ==
    LET per_page == IF per_page_arg < 1 THEN default_per_page ELSE per_page_arg
        page == IF page_arg < 1 THEN 1 ELSE page_arg
        total == Len(rows)
        pages == PageCount(total, per_page)
    IN  [items |-> SubSeq(rows, Offset(page, per_page) + 1,
                          Min(Offset(page, per_page) + per_page, total)),
         total |-> total, page |-> page, pages |-> pages, per_page |-> per_page,
         has_next |-> HasNext(page, pages), has_prev |-> page > 1]

\* the body both paginated routes return
PageJson(d, pagination, per_page) ==
    Json(200, TRUE, None,
         [count |-> pagination.total, page |-> pagination.page, pages |-> pagination.pages,
          per_page |-> per_page, has_next |-> pagination.has_next,
          has_prev |-> pagination.has_prev,
          books |-> [i \in 1..Len(pagination.items) |-> Book_to_dict(d, pagination.items[i])]])

get_books(d, args) ==
    LET page == ArgGet(args, "page", 1)
        per_page == ArgGet(args, "per_page", 10)
        sort_by == SortField(ArgGet(args, "sort", "id"))
        order == ArgGet(args, "order", "asc")
        query == OrderBy(d, DOMAIN d.book, OrderColumn(sort_by), order)
    IN  Result(d, PageJson(d, paginate(query, page, per_page), per_page))

\* Book.query.paginate(...) without order_by: the rows in rowid order
get_books_paginated(d, args) ==
    LET page == ArgGet(args, "page", 1)
        per_page == ArgGet(args, "per_page", 5)
        query == OrderBy(d, DOMAIN d.book, "id", "asc")
    IN  Result(d, PageJson(d, paginate(query, page, per_page), per_page))

get_books_sorted(d, args) ==
    LET sort_by == ArgGet(args, "sort", "title")
        order == ArgGet(args, "order", "asc")
        books == OrderBy(d, DOMAIN d.book, OrderColumn(sort_by), order)
    IN  Result(d, Json(200, TRUE, None,
                       [count |-> Len(books), sort_by |-> sort_by, order |-> order,
                        books |-> [i \in 1..Len(books) |-> Book_to_dict(d, books[i])]]))

(***************************************************************************)
(* part-4: search.  A string is matched as the sequence of its characters.  *)
(***************************************************************************)
\* the characters of the strings of the model
Chars(s) ==
    CASE s = "" -> <<>>
      [] s = " " -> <<" ">>
      [] s = "_" -> <<"_">>
      [] s = "crash " -> <<"c", "r", "a", "s", "h", " ">>
      [] s = "eric" -> <<"e", "r", "i", "c">>
      [] s = "Python Crash Course" -> <<"P", "y", "t", "h", "o", "n", " ", "C", "r", "a", "s", "h", " ", "C", "o", "u", "r", "s", "e">>
      [] s = "Flask Web Development" -> <<"F", "l", "a", "s", "k", " ", "W", "e", "b", " ", "D", "e", "v", "e", "l", "o", "p", "m", "e", "n", "t">>
      [] s = "Eric Matthes" -> <<"E", "r", "i", "c", " ", "M", "a", "t", "t", "h", "e", "s">>
      [] s = "Miguel Grinberg" -> <<"M", "i", "g", "u", "e", "l", " ", "G", "r", "i", "n", "b", "e", "r", "g">>

\* lower() of SQLite, character by character
LowerChar(c) ==
    CASE c = "C" -> "c"
      [] c = "D" -> "d"
      [] c = "E" -> "e"
      [] c = "F" -> "f"
      [] c = "G" -> "g"
      [] c = "M" -> "m"
      [] c = "P" -> "p"
      [] c = "W" -> "w"
      [] OTHER -> c

Lower(t) == [i \in 1..Len(t) |-> LowerChar(t[i])]

RECURSIVE strip(_)
\* str.strip(): the string without its leading and trailing whitespace
strip(t) ==
    IF t = <<>> THEN t
    ELSE IF Head(t) = " " THEN strip(Tail(t))
    ELSE IF t[Len(t)] = " " THEN strip(SubSeq(t, 1, Len(t) - 1))
    ELSE t

RECURSIVE Like(_, _)
\* SQLite's LIKE: % matches any run of characters, _ any one character
Like(pattern, t) ==
    IF pattern = <<>> THEN t = <<>>
    ELSE IF Head(pattern) = "%" THEN Like(Tail(pattern), t) \/ (t # <<>> /\ Like(pattern, Tail(t)))
    ELSE /\ t # <<>>
         /\ Head(pattern) = "_" \/ Head(pattern) = Head(t)
         /\ Like(Tail(pattern), Tail(t))

\* column.ilike(f"%{q}%"): lower(column) LIKE lower('%q%')
ilike(column, q) == Like(Lower(<<"%">> \o q \o <<"%">>), Lower(column))

\* Book.query.join(Author): the books whose author row is present
JoinAuthor(d) == {b \in DOMAIN d.book : Exists(d.author, d.book[b].author_id)}

search_books(d, args) ==
    LET q == strip(Chars(ArgGet(args, "q", "")))
        author == strip(Chars(ArgGet(args, "author", "")))
        found == {b \in JoinAuthor(d) :
                    /\ q # <<>> => ilike(Chars(d.book[b].title), q)
                    /\ author # <<>> =>
                        ilike(Chars(d.author[d.book[b].author_id].name), author)}
        books == OrderBy(d, found, "id", "asc")
    IN  Result(d, Json(200, TRUE, None,
                       [count |-> Len(books),
                        books |-> [i \in 1..Len(books) |-> Book_to_dict(d, books[i])]]))

(***************************************************************************)
(* part-4: init_db, run once at process start.  The sample lists are cut to *)
(* their first two rows.                                                    *)
(***************************************************************************)
sample_authors ==
    << [name |-> "Eric Matthes", city |-> "Anchorage", bio |-> "Python educator and author"],
       [name |-> "Miguel Grinberg", city |-> "Portland",
        bio |-> "Flask expert and software engineer"] >>

\* author is the name looked up in the authors dict
sample_books ==
    << [title |-> "Python Crash Course", author |-> "Eric Matthes", year |-> 2019,
        isbn |-> "978-1593279288"],
       [title |-> "Flask Web Development", author |-> "Miguel Grinberg", year |-> 2018,
        isbn |-> "978-1491991732"] >>

RECURSIVE InsertAll(_, _)
\* db.session.add_all(rows): the rows are inserted in list order
InsertAll(t, rows) ==
    IF rows = <<>> THEN t ELSE InsertAll(Insert(t, Head(rows)), Tail(rows))

\* {author.name: author.id for author in Author.query.all()}: with a name held
\* twice the later row wins; a name no row holds is a KeyError at authors[name]
AuthorIdByName(d, name) == Max({a \in DOMAIN d.author : d.author[a].name = name})

\* a start-up that adds the sample authors to whatever the table holds
init_db_4_always(d, now) ==
    Commit4(d, [d EXCEPT !.author = InsertAll(@, sample_authors)], Returned)

init_db_4(d, now) ==
    LET d1 == IF DOMAIN d.author = {}
              THEN [d EXCEPT !.author = InsertAll(@, sample_authors)] ELSE d
        known == \A i \in 1..Len(sample_books) :
                    \E a \in DOMAIN d1.author : d1.author[a].name = sample_books[i].author
        rows == [i \in 1..Len(sample_books) |->
                    [title |-> sample_books[i].title,
                     author_id |-> AuthorIdByName(d1, sample_books[i].author),
                     year |-> sample_books[i].year, isbn |-> sample_books[i].isbn,
                     created_at |-> now]]
    IN  IF DOMAIN d1.book # {} THEN Result(d1, Returned)
        ELSE IF ~known THEN Result(d1, Unhandled("KeyError"))
        ELSE Commit4(d1, [d1 EXCEPT !.book = InsertAll(@, rows)], Returned)

(***************************************************************************)
(* part-3 and part-6: HTML responses                                        *)
(***************************************************************************)
\* flash(...) and redirect(url_for(...))
Redirect(flash) ==
    [kind |-> "redirect", status |-> 302, success |-> TRUE, error |-> None, payload |-> flash]

\* an HTTPException that Flask renders as an error page: get_or_404's NotFound,
\* request.form[k]'s BadRequestKeyError
ErrorPage(status) ==
    [kind |-> "html", status |-> status, success |-> FALSE, error |-> None, payload |-> <<>>]

\* SQLite's INTEGER affinity: a form value that is a numeral is stored as the
\* integer it spells
Numerals == <<"1", "2", "3", "4", "5", "6", "7", "8", "9">>
IntegerAffinity(s) == CHOOSE i \in 1..Len(Numerals) : Numerals[i] = s

(***************************************************************************)
(* part-3: constraints and routes.  form is the submitted form: form.keys   *)
(* the fields it carries, form.k the string of field k.                     *)
(***************************************************************************)
\* a student table without the unique index
StudentEmailUnique_off(d) == TRUE

\* Student.email, Teacher.email unique=True
StudentEmailUnique(d) ==
    \A s1, s2 \in DOMAIN d.student : s1 # s2 => d.student[s1].email # d.student[s2].email

TeacherEmailUnique(d) ==
    \A t1, t2 \in DOMAIN d.teacher : t1 # t2 => d.teacher[t1].email # d.teacher[t2].email

Constraints3(d) == StudentEmailUnique(d) /\ TeacherEmailUnique(d)

Commit3(old, new, ok) ==
    IF Constraints3(new) THEN Result(new, ok) ELSE Result(old, Unhandled("IntegrityError"))

add_student(d, form) ==
    IF ~({"name", "email", "course_id"} \subseteq form.keys) THEN Result(d, ErrorPage(400))
    ELSE Commit3(d, [d EXCEPT !.student =
                        Insert(@, [name |-> form.name, email |-> form.email,
                                   course_id |-> IntegerAffinity(form.course_id)])],
                 Redirect("Student added successfully!"))

edit_student(d, id, form) ==
    IF ~Exists(d.student, id) THEN Result(d, ErrorPage(404))
    ELSE IF ~({"name", "email", "course_id"} \subseteq form.keys) THEN Result(d, ErrorPage(400))
    ELSE Commit3(d, [d EXCEPT !.student[id] =
                        [name |-> form.name, email |-> form.email,
                         course_id |-> IntegerAffinity(form.course_id)]],
                 Redirect("Student updated!"))

delete_student(d, id) ==
    IF ~Exists(d.student, id) THEN Result(d, ErrorPage(404))
    ELSE Commit3(d, [d EXCEPT !.student = Remove(@, {id})], Redirect("Student deleted!"))

\* request.form.get('specialization', '')
Specialization(form) == IF "specialization" \in form.keys THEN form.specialization ELSE ""

add_teacher(d, form) ==
    IF ~({"name", "email", "course_id"} \subseteq form.keys) THEN Result(d, ErrorPage(400))
    ELSE Commit3(d, [d EXCEPT !.teacher =
                        Insert(@, [name |-> form.name, email |-> form.email,
                                   specialization |-> Specialization(form),
                                   course_id |-> IntegerAffinity(form.course_id)])],
                 Redirect("Teacher added successfully!"))

edit_teacher(d, id, form) ==
    IF ~Exists(d.teacher, id) THEN Result(d, ErrorPage(404))
    ELSE IF ~({"name", "email", "course_id"} \subseteq form.keys) THEN Result(d, ErrorPage(400))
    ELSE Commit3(d, [d EXCEPT !.teacher[id] =
                        [name |-> form.name, email |-> form.email,
                         specialization |-> Specialization(form),
                         course_id |-> IntegerAffinity(form.course_id)]],
                 Redirect("Teacher updated!"))

delete_teacher(d, id) ==
    IF ~Exists(d.teacher, id) THEN Result(d, ErrorPage(404))
    ELSE Commit3(d, [d EXCEPT !.teacher = Remove(@, {id})], Redirect("Teacher deleted!"))

add_course(d, form) ==
    IF "name" \notin form.keys THEN Result(d, ErrorPage(400))
    ELSE Commit3(d, [d EXCEPT !.course =
                        Insert(@, [name |-> form.name,
                                   description |-> IF "description" \in form.keys
                                                   THEN form.description ELSE ""])],
                 Redirect("Course added!"))

(***************************************************************************)
(* part-3: init_db.  The teacher and student sample lists are cut to their  *)
(* first rows; course is the index into Course.query.all().                 *)
(***************************************************************************)
sample_courses ==
    << [name |-> "Python Basics", description |-> "Learn Python programming fundamentals"],
       [name |-> "Web Development", description |-> "HTML, CSS, JavaScript and Flask"],
       [name |-> "Data Science", description |-> "Data analysis with Python"] >>

sample_teachers ==
    << [name |-> "Dr. Sarah Johnson", email |-> "sarah@school.com",
        specialization |-> "Python Programming", course |-> 0] >>

sample_students ==
    << [name |-> "Alice Smith", email |-> "alice@student.com", course |-> 0] >>

\* Course.query.all(): the rows in rowid order; courses[i] of the code is
\* element i+1 here, and an index past the end is an IndexError
RECURSIVE Query_all(_)
Query_all(t) ==
    IF DOMAIN t = {} THEN <<>>
    ELSE LET lo == CHOOSE i \in DOMAIN t : \A j \in DOMAIN t : i <= j
         IN  <<lo>> \o Query_all(Remove(t, {lo}))

init_db_3(d) ==
    LET d1 == IF DOMAIN d.course = {}
              THEN [d EXCEPT !.course = InsertAll(@, sample_courses)] ELSE d
        courses == Query_all(d1.course)
        tOk == \A i \in 1..Len(sample_teachers) : sample_teachers[i].course < Len(courses)
        tRows == [i \in 1..Len(sample_teachers) |->
                    [name |-> sample_teachers[i].name, email |-> sample_teachers[i].email,
                     specialization |-> sample_teachers[i].specialization,
                     course_id |-> courses[sample_teachers[i].course + 1]]]
        d2 == IF DOMAIN d1.teacher = {}
              THEN [d1 EXCEPT !.teacher = InsertAll(@, tRows)] ELSE d1
        sOk == \A i \in 1..Len(sample_students) : sample_students[i].course < Len(courses)
        sRows == [i \in 1..Len(sample_students) |->
                    [name |-> sample_students[i].name, email |-> sample_students[i].email,
                     course_id |-> courses[sample_students[i].course + 1]]]
    IN  IF DOMAIN d1.teacher = {} /\ ~tOk THEN Result(d1, Unhandled("IndexError"))
        ELSE IF DOMAIN d2.student # {} THEN Result(d2, Returned)
        ELSE IF ~sOk THEN Result(d2, Unhandled("IndexError"))
        ELSE Commit3(d2, [d2 EXCEPT !.student = InsertAll(@, sRows)],
                     Returned)

(***************************************************************************)
(* part-6: product routes                                                   *)
(***************************************************************************)
\* int(s) and float(s): the number the string spells (a float in hundredths),
\* a ValueError for a string that spells none
IsNumber(s) == s \in {"0", "5", "9.5"}
IsInt(s) == s \in {"0", "5"}
int(s) == IF s = "5" THEN 5 ELSE 0
float(s) == IF s = "9.5" THEN 950 ELSE IF s = "5" THEN 500 ELSE 0

\* the three form reads of add_product and edit_product, in the code's order
ProductForm(form) ==
    IF "name" \notin form.keys \/ "quantity" \notin form.keys THEN "BadRequestKeyError"
    ELSE IF ~IsInt(form.quantity) THEN "ValueError"
    ELSE IF "price" \notin form.keys THEN "BadRequestKeyError"
    ELSE IF ~IsNumber(form.price) THEN "ValueError"
    ELSE "ok"

ProductRow(form) ==
    [name |-> form.name, quantity |-> int(form.quantity), price |-> float(form.price)]

add_product(d, form) ==
    IF ProductForm(form) = "BadRequestKeyError" THEN Result(d, ErrorPage(400))
    ELSE IF ProductForm(form) = "ValueError" THEN Result(d, Unhandled("ValueError"))
    ELSE Result([d EXCEPT !.product = Insert(@, ProductRow(form))], Redirect(None))

delete_product(d, id) ==
    IF ~Exists(d.product, id) THEN Result(d, ErrorPage(404))
    ELSE Result([d EXCEPT !.product = Remove(@, {id})], Redirect(None))

edit_product(d, id, form) ==
    IF ~Exists(d.product, id) THEN Result(d, ErrorPage(404))
    ELSE IF ProductForm(form) = "BadRequestKeyError" THEN Result(d, ErrorPage(400))
    ELSE IF ProductForm(form) = "ValueError" THEN Result(d, Unhandled("ValueError"))
    ELSE Result([d EXCEPT !.product[id] = ProductRow(form)], Redirect(None))

\* the __main__ block of part-6: db.create_all() and nothing else
create_all_6(d) == Result(d, Returned)

(***************************************************************************)
(* Requests: the inputs of the model.                                       *)
(***************************************************************************)
Req(op, id, data) == [op |-> op, id |-> id, data |-> data]

NoData == [keys |-> {}]
NoResp == [kind |-> "none", status |-> 0, success |-> FALSE, error |-> None, payload |-> <<>>]

Times == 1..MaxTime
\* the ids a request names; 0 is no row's id, and the highest is not a seeded
\* row's
AuthorIds == 0..MaxAuthorId
BookIds == 1..MaxBookId

Names == {"", "Eric Matthes"}
Bios == {"Python educator and author"}
Cities == {"Anchorage"}
Titles == {"", "Python Crash Course"}
Years == {2019}
Isbns == {"", "978-1593279288"}

\* JSON objects over the author keys; an absent key reads as None.  A create
\* reads every key with data.get, which does not tell null from absent, so
\* its bodies carry no null.
AuthorBodies ==
    {b \in [keys : SUBSET {"name", "bio", "city"}, name : Names \cup {None},
            bio : Bios \cup {None}, city : Cities \cup {None}] :
        /\ "name" \notin b.keys => b.name = None
        /\ "bio" \notin b.keys => b.bio = None
        /\ "city" \notin b.keys => b.city = None}

NewAuthorBodies ==
    {b \in AuthorBodies : \A k \in b.keys : b[k] # None}

\* the bodies of an update carry at most MaxKeys keys
UpdAuthorBodies == {b \in AuthorBodies : Cardinality(b.keys) <= MaxKeys}

\* JSON objects over the book keys; an absent key reads as None
BookBodies ==
    {b \in [keys : SUBSET {"title", "author_id", "year", "isbn"}, title : Titles \cup {None},
            author_id : AuthorIds \cup {NoneInt}, year : Years \cup {NoneInt},
            isbn : Isbns \cup {None}] :
        /\ "title" \notin b.keys => b.title = None
        /\ ("author_id" \notin b.keys) = (b.author_id = NoneInt)
        /\ "year" \notin b.keys => b.year = NoneInt
        /\ "isbn" \notin b.keys => b.isbn = None}

\* a create carries at most one of the optional keys
NewBookBodies ==
    {b \in BookBodies : /\ "title" \in b.keys => b.title # None
                        /\ "year" \in b.keys => b.year # NoneInt
                        /\ "isbn" \in b.keys => b.isbn # None
                        /\ ~({"year", "isbn"} \subseteq b.keys)}

UpdBookBodies == {b \in BookBodies : Cardinality(b.keys) <= MaxKeys}

\* query strings of the list routes: none, ?page=&per_page=, ?sort=&order=, or
\* all four parameters; a parameter the query string lacks holds its filler
PageArgs == 0..MaxPage
PerPageArgs == (0 - 1)..MaxPerPage
SortArgs == {"id", "title", "year", "created_at", "isbn"}
OrderArgs == {"asc", "desc", "up"}

ListArgs ==
    {a \in [keys : {{}, {"page", "per_page"}, {"sort", "order"},
                    {"page", "per_page", "sort", "order"}},
            page : PageArgs, per_page : PerPageArgs, sort : SortArgs, order : OrderArgs] :
        /\ "page" \notin a.keys => (a.page = 0 /\ a.per_page = 0)
        /\ "sort" \notin a.keys => (a.sort = "id" /\ a.order = "asc")}

\* query strings of the search route
SearchArgs ==
    {a \in [keys : SUBSET {"q", "author"}, q : {"", " ", "crash ", "_"},
            author : {"", "eric"}] :
        /\ "q" \notin a.keys => a.q = ""
        /\ "author" \notin a.keys => a.author = ""}

RowIds == 1..MaxRowId
CourseIdForms == {"1", "9"}

\* submitted forms; an absent field reads as None
StudentForms ==
    {f \in [keys : {{"name", "email", "course_id"}, {"name", "course_id"}, {}},
            name : {"", "Alice Smith", None},
            email : {"alice@student.com", "bob@student.com", None},
            course_id : CourseIdForms \cup {None}] :
        /\ ("name" \in f.keys) = (f.name # None)
        /\ ("email" \in f.keys) = (f.email # None)
        /\ ("course_id" \in f.keys) = (f.course_id # None)}

TeacherForms ==
    {f \in [keys : {{"name", "email", "course_id", "specialization"},
                    {"name", "email", "course_id"}, {"name", "email"}},
            name : {"Dr. Sarah Johnson", None},
            email : {"sarah@school.com", "mike@school.com", None},
            specialization : {"Python Programming", None},
            course_id : CourseIdForms \cup {None}] :
        /\ ("name" \in f.keys) = (f.name # None)
        /\ ("email" \in f.keys) = (f.email # None)
        /\ ("specialization" \in f.keys) = (f.specialization # None)
        /\ ("course_id" \in f.keys) = (f.course_id # None)}

CourseForms ==
    {f \in [keys : SUBSET {"name", "description"}, name : {"", "Python Basics", None},
            description : {"Learn Python programming fundamentals", None}] :
        /\ ("name" \in f.keys) = (f.name # None)
        /\ ("description" \in f.keys) = (f.description # None)}

ProductForms ==
    {f \in [keys : SUBSET {"name", "quantity", "price"}, name : {"", "Pen", None},
            quantity : {"", "5", None}, price : {"", "9.5", None}] :
        /\ ("name" \in f.keys) = (f.name # None)
        /\ ("quantity" \in f.keys) = (f.quantity # None)
        /\ ("price" \in f.keys) = (f.price # None)}

(***************************************************************************)
(* Actions: one per request, and the process's start and stop.              *)
(***************************************************************************)
InBounds(d) ==
    /\ DOMAIN d.author \subseteq 1..MaxAuthorId
    /\ DOMAIN d.book \subseteq 1..MaxBookId
    /\ DOMAIN d.student \subseteq 1..MaxRowId
    /\ DOMAIN d.teacher \subseteq 1..MaxRowId
    /\ DOMAIN d.product \subseteq 1..MaxRowId
    /\ DOMAIN d.course \subseteq 1..(Len(sample_courses) + 1)

Idle == req.op = "none"

Serving(p) == part = p /\ pc = "serving" /\ Idle
Starting(p) == part = p /\ pc = "start" /\ Idle

\* one request handled by a serving process; requests are handled one at a
\* time, the next after the teardown of the one before
Serve(r, res) ==
    /\ served < MaxRequests
    /\ served' = served + 1
    /\ InBounds(res.db)
    /\ pre' = db
    /\ req' = r
    /\ db' = res.db
    /\ resp' = res.resp
    /\ UNCHANGED <<part, pc, threads>>

\* the __main__ block: init_db(), then app.run()
Start(r, res) ==
    /\ UNCHANGED served
    /\ pre' = db
    /\ req' = r
    /\ db' = res.db
    /\ resp' = res.resp
    /\ pc' = IF res.resp.kind = "exception" THEN "start" ELSE "serving"
    /\ UNCHANGED <<part, threads>>

\* the process is stopped between two requests
Stop ==
    /\ pc = "serving"
    /\ Idle
    /\ pc' = "start"
    /\ UNCHANGED <<part, db, pre, req, resp, served, threads>>

\* the response is sent and the request context torn down
Teardown ==
    /\ ~Idle
    /\ req' = Req("none", 0, NoData)
    /\ resp' = NoResp
    /\ pre' = db
    /\ UNCHANGED <<part, pc, db, served, threads>>

InitDb4 == Starting("part-4") /\ \E now \in Times : Start(Req("init_db", 0, NoData), init_db_4(db, now))

GetAuthors == Serving("part-4") /\ Serve(Req("get_authors", 0, NoData), get_authors(db))

GetAuthor ==
    Serving("part-4") /\ \E id \in 1..MaxAuthorId : Serve(Req("get_author", id, NoData), get_author(db, id))

CreateAuthor ==
    Serving("part-4") /\ \E data \in NewAuthorBodies :
        Serve(Req("create_author", 0, data), create_author(db, data))

UpdateAuthor ==
    Serving("part-4") /\ \E id \in 1..MaxAuthorId, data \in UpdAuthorBodies :
        Serve(Req("update_author", id, data), update_author(db, id, data))

DeleteAuthor ==
    Serving("part-4") /\ \E id \in 1..MaxAuthorId :
        Serve(Req("delete_author", id, NoData), delete_author(db, id))

GetBook ==
    Serving("part-4") /\ \E id \in BookIds : Serve(Req("get_book", id, NoData), get_book(db, id))

CreateBook ==
    Serving("part-4") /\ \E data \in NewBookBodies, now \in Times :
        Serve(Req("create_book", 0, data), create_book(db, data, now))

UpdateBook ==
    Serving("part-4") /\ \E id \in BookIds, data \in UpdBookBodies :
        Serve(Req("update_book", id, data), update_book(db, id, data))

DeleteBook ==
    Serving("part-4") /\ \E id \in BookIds :
        Serve(Req("delete_book", id, NoData), delete_book(db, id))

GetBooks ==
    Serving("part-4") /\ \E args \in ListArgs : Serve(Req("get_books", 0, args), get_books(db, args))

GetBooksPaginated ==
    Serving("part-4") /\ \E args \in {a \in ListArgs : "sort" \notin a.keys} :
        Serve(Req("get_books_paginated", 0, args), get_books_paginated(db, args))

GetBooksSorted ==
    Serving("part-4") /\ \E args \in {a \in ListArgs : "page" \notin a.keys} :
        Serve(Req("get_books_sorted", 0, args), get_books_sorted(db, args))

SearchBooks ==
    Serving("part-4") /\ \E args \in SearchArgs :
        Serve(Req("search_books", 0, args), search_books(db, args))

InitDb3 == Starting("part-3") /\ Start(Req("init_db", 0, NoData), init_db_3(db))

AddStudent ==
    Serving("part-3") /\ \E form \in StudentForms :
        Serve(Req("add_student", 0, form), add_student(db, form))

EditStudent ==
    Serving("part-3") /\ \E id \in RowIds, form \in StudentForms :
        Serve(Req("edit_student", id, form), edit_student(db, id, form))

DeleteStudent ==
    Serving("part-3") /\ \E id \in RowIds :
        Serve(Req("delete_student", id, NoData), delete_student(db, id))

AddTeacher ==
    Serving("part-3") /\ \E form \in TeacherForms :
        Serve(Req("add_teacher", 0, form), add_teacher(db, form))

EditTeacher ==
    Serving("part-3") /\ \E id \in RowIds, form \in TeacherForms :
        Serve(Req("edit_teacher", id, form), edit_teacher(db, id, form))

DeleteTeacher ==
    Serving("part-3") /\ \E id \in RowIds :
        Serve(Req("delete_teacher", id, NoData), delete_teacher(db, id))

AddCourse ==
    Serving("part-3") /\ \E form \in CourseForms :
        Serve(Req("add_course", 0, form), add_course(db, form))

CreateAll6 == Starting("part-6") /\ Start(Req("create_all", 0, NoData), create_all_6(db))

AddProduct ==
    Serving("part-6") /\ \E form \in ProductForms :
        Serve(Req("add_product", 0, form), add_product(db, form))

EditProduct ==
    Serving("part-6") /\ \E id \in RowIds, form \in ProductForms :
        Serve(Req("edit_product", id, form), edit_product(db, id, form))

DeleteProduct ==
    Serving("part-6") /\ \E id \in RowIds :
        Serve(Req("delete_product", id, NoData), delete_product(db, id))

Parts == {"part-3", "part-4", "part-6"}

Init ==
    /\ part \in Parts
    /\ pc = "start"
    /\ db = EmptyDb
    /\ pre = EmptyDb
    /\ req = Req("none", 0, NoData)
    /\ resp = NoResp
    /\ served = 0
    /\ threads = <<>>

Next ==
    \/ InitDb4
    \/ Stop
    \/ Teardown
    \/ GetAuthors
    \/ GetAuthor
    \/ CreateAuthor
    \/ UpdateAuthor
    \/ DeleteAuthor
    \/ GetBook
    \/ CreateBook
    \/ UpdateBook
    \/ DeleteBook
    \/ GetBooks
    \/ GetBooksPaginated
    \/ GetBooksSorted
    \/ SearchBooks
    \/ InitDb3
    \/ AddStudent
    \/ EditStudent
    \/ DeleteStudent
    \/ AddTeacher
    \/ EditTeacher
    \/ DeleteTeacher
    \/ AddCourse
    \/ CreateAll6
    \/ AddProduct
    \/ EditProduct
    \/ DeleteProduct

Spec == Init /\ [][Next]_vars

(***************************************************************************)
(* part-4, two requests at once.  app.run() serves every request in its own *)
(* thread with its own session; each query and each commit is one step on   *)
(* the SQLite file.  A SELECT holds no lock once it has returned, and a     *)
(* commit is atomic.                                                        *)
(***************************************************************************)
Workers == {1, 2}

\* POST /api/books bodies of the two requests: one of the seeded authors, and
\* no isbn, an isbn no book holds, or the isbn of a seeded book
ConcBookBodies ==
    {[keys |-> IF i = None THEN {"title", "author_id"} ELSE {"title", "author_id", "isbn"},
      title |-> "Python Crash Course", author_id |-> a, year |-> NoneInt, isbn |-> i] :
        a \in 1..Len(sample_authors), i \in {None, "978-0132350884", "978-1593279288"}}

\* a request that has been routed to its view function and has run nothing yet
Begin(op, id, data) ==
    [op |-> op, id |-> id, data |-> data,
     at |-> IF op = "create_book" THEN "author" ELSE "get",
     books |-> {}, row |-> 0, resp |-> NoResp]

ConcRequests ==
    {Begin("create_book", 0, data) : data \in ConcBookBodies}
        \cup {Begin("delete_author", id, NoData) : id \in 1..Len(sample_authors)}

At(t, op, at) == threads[t].op = op /\ threads[t].at = at

\* thread t goes on to `at`
Goto(t, at) ==
    /\ threads' = [threads EXCEPT ![t].at = at]
    /\ UNCHANGED <<part, pc, db, pre, req, resp, served>>

\* thread t returns r
Return(t, r) ==
    /\ threads' = [threads EXCEPT ![t].at = "done", ![t].resp = r]
    /\ UNCHANGED <<part, pc, pre, req, resp, served>>

\* create_book: the body checks and Author.query.get(data['author_id'])
CbAuthor ==
    \E t \in Workers :
        /\ At(t, "create_book", "author")
        /\ LET data == threads[t].data
           IN  IF data.keys = {} THEN Return(t, Fail(400, "No data provided")) /\ UNCHANGED db
               ELSE IF Falsy(data.title) \/ FalsyInt(data.author_id)
               THEN Return(t, Fail(400, "Title and author_id are required")) /\ UNCHANGED db
               ELSE IF ~AuthorFound(db, data.author_id)
               THEN Return(t, Fail(400, "Author not found")) /\ UNCHANGED db
               ELSE Goto(t, "isbn")

\* create_book: Book.query.filter_by(isbn=data['isbn']).first()
CbIsbn ==
    \E t \in Workers :
        /\ At(t, "create_book", "isbn")
        /\ IF ~Falsy(threads[t].data.isbn) /\ IsbnExists(db, threads[t].data.isbn)
           THEN Return(t, Fail(400, "ISBN already exists")) /\ UNCHANGED db
           ELSE Goto(t, "insert")

\* create_book: db.session.add(new_book); db.session.commit()
CbInsert ==
    \E t \in Workers, now \in Times :
        /\ At(t, "create_book", "insert")
        /\ LET data == threads[t].data
               new == [db EXCEPT !.book =
                          Insert(@, [title |-> data.title, author_id |-> data.author_id,
                                     year |-> data.year, isbn |-> data.isbn,
                                     created_at |-> now])]
           IN  IF Constraints4(new)
               THEN /\ db' = new
                    /\ threads' = [threads EXCEPT ![t].at = "respond",
                                                  ![t].row = NextId(db.book)]
                    /\ UNCHANGED <<part, pc, pre, req, resp, served>>
               ELSE Return(t, Unhandled("IntegrityError")) /\ UNCHANGED db

\* create_book: new_book.to_dict(), which reloads the book and looks its
\* author up
CbRespond ==
    \E t \in Workers :
        /\ At(t, "create_book", "respond")
        /\ IF Exists(db.book, threads[t].row)
           THEN Return(t, Json(201, TRUE, None, Book_to_dict(db, threads[t].row)))
           ELSE Return(t, Unhandled("ObjectDeletedError"))
        /\ UNCHANGED db

\* delete_author: Author.query.get(id)
DaGet ==
    \E t \in Workers :
        /\ At(t, "delete_author", "get")
        /\ IF ~Exists(db.author, threads[t].id)
           THEN Return(t, Fail(404, "Author not found")) /\ UNCHANGED db
           ELSE Goto(t, "load")

\* delete_author: db.session.delete(author) loads Author.books for the cascade
DaLoad ==
    \E t \in Workers :
        /\ At(t, "delete_author", "load")
        /\ threads' = [threads EXCEPT ![t].at = "commit",
                                      ![t].books = Author_books(db, threads[t].id)]
        /\ UNCHANGED <<part, pc, db, pre, req, resp, served>>

\* delete_author: db.session.commit() deletes the loaded books and the author
\* by primary key; a row that is gone by then is a warning, not an error
DaCommit ==
    \E t \in Workers :
        /\ At(t, "delete_author", "commit")
        /\ db' = [db EXCEPT !.book = Remove(@, threads[t].books),
                            !.author = Remove(@, {threads[t].id})]
        /\ Return(t, Json(200, TRUE, None, <<>>))

\* two requests arrive together at a process serving the seeded store
InitConc ==
    /\ part = "part-4"
    /\ pc = "serving"
    /\ db \in {init_db_4(EmptyDb, now).db : now \in Times}
    /\ pre = db
    /\ req = Req("none", 0, NoData)
    /\ resp = NoResp
    /\ served = 0
    /\ threads \in [Workers -> ConcRequests]

NextConc ==
    \/ CbAuthor
    \/ CbIsbn
    \/ CbInsert
    \/ CbRespond
    \/ DaGet
    \/ DaLoad
    \/ DaCommit

SpecConc == InitConc /\ [][NextConc]_vars

(***************************************************************************)
(* Properties.  In a state with req.op # "none" the request req has just    *)
(* been handled: pre is the store it found, db the store it left, resp its  *)
(* response.                                                                *)
(***************************************************************************)
Envelope400 == resp.kind = "json" /\ resp.status = 400 /\ ~resp.success /\ resp.error # None

\* C1: after a successful DELETE /api/authors/<id> no book row with that
\* author_id remains, whatever requests came before.
C1_CascadeOnDelete ==
    (req.op = "delete_author" /\ resp.status = 200) =>
        /\ req.id \in DOMAIN pre.author
        /\ req.id \notin DOMAIN db.author
        /\ \A b \in DOMAIN db.book : db.book[b].author_id # req.id

\* an author is deleted who, beside the seeded book, holds one given to it by a
\* POST or a PUT, while another author remains
C1_Witness ==
    /\ req.op = "delete_author" /\ resp.status = 200
    /\ Cardinality({b \in DOMAIN pre.book : pre.book[b].author_id = req.id}) >= 2
    /\ DOMAIN db.author # {}

\* C2: in every reachable store every book's author_id is the id of an author
\* row that is present.
C2_ReferentialIntegrity ==
    \A b \in DOMAIN db.book : db.book[b].author_id \in DOMAIN db.author

\* a PUT has moved a book to another author
C2_Witness ==
    /\ req.op = "update_book" /\ resp.status = 200
    /\ db.book[req.id].author_id # pre.book[req.id].author_id

\* C3: POST /api/books with a non-empty title and an author_id that matches no
\* author answers 400 "Author not found" and leaves the store unchanged.
C3_AuthorNotFound ==
    (/\ req.op = "create_book"
     /\ req.data.title \notin {None, ""}
     /\ "author_id" \in req.data.keys
     /\ req.data.author_id \notin DOMAIN pre.author) =>
        /\ Envelope400 /\ resp.error = "Author not found"
        /\ db = pre

\* C4: POST /api/books with an isbn that a book already holds answers with the
\* 400 error envelope and leaves the store unchanged, for every non-null isbn.
C4_DuplicateIsbnRejected ==
    (/\ req.op = "create_book"
     /\ "isbn" \in req.data.keys /\ req.data.isbn # None
     /\ \E b \in DOMAIN pre.book : pre.book[b].isbn = req.data.isbn) =>
        /\ Envelope400
        /\ db = pre

\* C5: no two distinct book rows hold the same non-null isbn (null isbns may
\* repeat), in every reachable store.
C5_IsbnUnique ==
    \A b1, b2 \in DOMAIN db.book :
        (b1 # b2 /\ db.book[b1].isbn # None) => db.book[b1].isbn # db.book[b2].isbn

\* a create or an update has left two books that both hold a null isbn
C5_Witness ==
    /\ req.op \in {"create_book", "update_book"} /\ resp.success
    /\ \E b1, b2 \in DOMAIN db.book :
        b1 # b2 /\ db.book[b1].isbn = None /\ db.book[b2].isbn = None

\* C6: POST /add and POST /add-teacher with an email another row of the table
\* holds are rejected and leave the store unchanged; student emails are
\* pairwise distinct and teacher emails are pairwise distinct in every
\* reachable store, edits included.
C6_EmailUnique ==
    /\ \A s1, s2 \in DOMAIN db.student : s1 # s2 => db.student[s1].email # db.student[s2].email
    /\ \A t1, t2 \in DOMAIN db.teacher : t1 # t2 => db.teacher[t1].email # db.teacher[t2].email
    /\ (/\ req.op = "add_student" /\ "email" \in req.data.keys
        /\ \E x \in DOMAIN pre.student : pre.student[x].email = req.data.email) =>
            (db = pre /\ resp.kind # "redirect")
    /\ (/\ req.op = "add_teacher" /\ "email" \in req.data.keys
        /\ \E x \in DOMAIN pre.teacher : pre.teacher[x].email = req.data.email) =>
            (db = pre /\ resp.kind # "redirect")

\* an edit tried to give a student the email of another student
C6_Witness ==
    /\ req.op = "edit_student" /\ req.id \in DOMAIN pre.student
    /\ "email" \in req.data.keys /\ "course_id" \in req.data.keys
    /\ \E x \in DOMAIN pre.student \ {req.id} : pre.student[x].email = req.data.email

\* C7: a create with every required field adds exactly one row, answers 201
\* with the row's full representation, the row is read back by its id, and the
\* id is that of no other row of the table.
C7_CreateYieldsFreshRow ==
    /\ (req.op = "create_author" /\ req.data.name \notin {None, ""}) =>
        /\ resp.kind = "json" /\ resp.status = 201 /\ resp.success
        /\ resp.payload.id \notin DOMAIN pre.author
        /\ DOMAIN db.author = DOMAIN pre.author \cup {resp.payload.id}
        /\ \A a \in DOMAIN pre.author : db.author[a] = pre.author[a]
        /\ db.book = pre.book
        /\ resp.payload = [id |-> resp.payload.id, name |-> req.data.name,
                           bio |-> req.data.bio, city |-> req.data.city, books_count |-> 0]
        /\ get_author(db, resp.payload.id).resp.status = 200
        /\ get_author(db, resp.payload.id).resp.payload.author = resp.payload
    /\ (/\ req.op = "create_book" /\ req.data.title \notin {None, ""}
        /\ req.data.author_id \in DOMAIN pre.author
        /\ (req.data.isbn = None
            \/ \A b \in DOMAIN pre.book : pre.book[b].isbn # req.data.isbn)) =>
        /\ resp.kind = "json" /\ resp.status = 201 /\ resp.success
        /\ resp.payload.id \notin DOMAIN pre.book
        /\ DOMAIN db.book = DOMAIN pre.book \cup {resp.payload.id}
        /\ \A b \in DOMAIN pre.book : db.book[b] = pre.book[b]
        /\ db.author = pre.author
        /\ \E t \in Times :
            resp.payload = [id |-> resp.payload.id, title |-> req.data.title,
                            author_id |-> req.data.author_id,
                            author_name |-> pre.author[req.data.author_id].name,
                            year |-> req.data.year, isbn |-> req.data.isbn,
                            created_at |-> t]
        /\ get_book(db, resp.payload.id).resp.status = 200
        /\ get_book(db, resp.payload.id).resp.payload = resp.payload

\* a row is created in a table whose lowest key has been deleted
C7_Witness ==
    \/ /\ req.op = "create_author" /\ resp.status = 201
       /\ DOMAIN pre.author # {} /\ 1 \notin DOMAIN pre.author
    \/ /\ req.op = "create_book" /\ resp.status = 201
       /\ DOMAIN pre.book # {} /\ 1 \notin DOMAIN pre.book

\* C8: a create without a non-empty name (authors), or without a non-empty
\* title or without an author_id (books), answers with the 400 error envelope
\* and leaves the store unchanged.
C8_MissingFieldRejected ==
    /\ (req.op = "create_author" /\ req.data.name \in {None, ""}) =>
        (Envelope400 /\ db = pre)
    /\ (/\ req.op = "create_book"
        /\ (req.data.title \in {None, ""} \/ "author_id" \notin req.data.keys)) =>
        (Envelope400 /\ db = pre)

\* a create carries its mandatory field empty, beside other fields
C8_Witness ==
    \/ req.op = "create_author" /\ "name" \in req.data.keys /\ req.data.name = ""
    \/ /\ req.op = "create_book" /\ "title" \in req.data.keys /\ req.data.title = ""
       /\ req.data.author_id \in DOMAIN pre.author

\* the table an update or delete request addresses
Target(d) ==
    CASE req.op \in {"update_author", "delete_author"} -> d.author
      [] req.op \in {"update_book", "delete_book"} -> d.book
      [] req.op \in {"edit_student", "delete_student"} -> d.student
      [] req.op \in {"edit_teacher", "delete_teacher"} -> d.teacher
      [] req.op \in {"edit_product", "delete_product"} -> d.product
      [] OTHER -> EmptyTable

Addressed ==
    req.op \in {"update_author", "delete_author", "update_book", "delete_book",
                "edit_student", "delete_student", "edit_teacher", "delete_teacher",
                "edit_product", "delete_product"}

\* C9: an update or delete addressed to a key the store does not hold answers
\* 404 and leaves the store unchanged, for every entity and body; in part-4
\* the answer is the "... not found" envelope, also for an empty body.
C9_NotFound ==
    (Addressed /\ req.id \notin DOMAIN Target(pre)) =>
        /\ resp.status = 404
        /\ db = pre
        /\ part = "part-4" =>
            /\ resp.kind = "json" /\ ~resp.success
            /\ resp.error \in {"Author not found", "Book not found"}

\* a PUT with an empty body is addressed to a book that does not exist, while
\* another book does
C9_Witness ==
    /\ req.op = "update_book" /\ req.id \notin DOMAIN pre.book
    /\ req.data.keys = {} /\ DOMAIN pre.book # {}

\* C10: a successful PUT changes, on the addressed row only, only fields
\* whose keys the body carries; every other field and row is unchanged.
C10_UpdateFrame ==
    /\ (req.op = "update_author" /\ resp.status = 200) =>
        /\ DOMAIN db.author = DOMAIN pre.author
        /\ \A a \in DOMAIN pre.author \ {req.id} : db.author[a] = pre.author[a]
        /\ \A k \in {"name", "bio", "city"} \ req.data.keys :
            db.author[req.id][k] = pre.author[req.id][k]
        /\ db.book = pre.book
    /\ (req.op = "update_book" /\ resp.status = 200) =>
        /\ DOMAIN db.book = DOMAIN pre.book
        /\ \A b \in DOMAIN pre.book \ {req.id} : db.book[b] = pre.book[b]
        /\ \A k \in {"title", "author_id", "year", "isbn", "created_at"} \ req.data.keys :
            db.book[req.id][k] = pre.book[req.id][k]
        /\ db.author = pre.author

\* a PUT changes one book of two and its body lacks the isbn the book holds
C10_Witness ==
    /\ req.op = "update_book" /\ resp.status = 200
    /\ "isbn" \notin req.data.keys /\ pre.book[req.id].isbn # None
    /\ db.book[req.id] # pre.book[req.id]
    /\ Cardinality(DOMAIN db.book) = 2

\* C11: PUT /api/books/<id> that sets isbn to a value another book holds
\* answers with the 400 error envelope and leaves the store unchanged.
C11_UpdateIsbnRevalidated ==
    (/\ req.op = "update_book" /\ req.id \in DOMAIN pre.book
     /\ "isbn" \in req.data.keys /\ req.data.isbn # None
     /\ \E b \in DOMAIN pre.book \ {req.id} : pre.book[b].isbn = req.data.isbn) =>
        /\ Envelope400
        /\ db = pre

\* C12: PUT /api/books/<id> for an existing book with an author_id that matches
\* no author answers 400 "Author not found", leaves the book as it was, the
\* title of the same body included, and GET /api/books/<id> then gives the old
\* title.
C12_UpdateAuthorNotFound ==
    (/\ req.op = "update_book" /\ req.id \in DOMAIN pre.book
     /\ "author_id" \in req.data.keys
     /\ req.data.author_id \notin DOMAIN pre.author) =>
        /\ Envelope400 /\ resp.error = "Author not found"
        /\ db = pre
        /\ get_book(db, req.id).resp.payload.title = pre.book[req.id].title

\* C13: every student's and every teacher's course_id is the id of a course
\* that is present, and an add or edit naming a course that is not present
\* leaves the store unchanged.
C13_CourseReference ==
    /\ \A s \in DOMAIN db.student : db.student[s].course_id \in DOMAIN db.course
    /\ \A t \in DOMAIN db.teacher : db.teacher[t].course_id \in DOMAIN db.course
    /\ (/\ req.op \in {"add_student", "edit_student", "add_teacher", "edit_teacher"}
        /\ "course_id" \in req.data.keys
        /\ IntegerAffinity(req.data.course_id) \notin DOMAIN pre.course) => db = pre

\* the page and page size a list request asks for
AskedPage == IF "page" \in req.data.keys THEN req.data.page ELSE 1
AskedPerPage ==
    IF "per_page" \in req.data.keys THEN req.data.per_page
    ELSE IF req.op = "get_books" THEN 10 ELSE 5

\* the ids of the books a list response carries, in response order
BookIdsOf(r) == [i \in 1..Len(r.payload.books) |-> r.payload.books[i].id]

\* ceil(n / p) for p >= 1
Ceil(n, p) == CHOOSE c \in 0..n : c * p >= n /\ (c - 1) * p < n

\* C14: GET /api/books and GET /api/books-with-pagination with page size
\* p >= 1 over n books report pages = ceil(n/p) (0 for n = 0) and count = n,
\* and a page beyond pages is answered 200 with no books.
C14_PageCount ==
    (req.op \in {"get_books", "get_books_paginated"} /\ AskedPerPage >= 1) =>
        LET n == Cardinality(DOMAIN pre.book)
        IN  /\ resp.kind = "json" /\ resp.status = 200 /\ resp.success
            /\ resp.payload.count = n
            /\ resp.payload.pages = Ceil(n, AskedPerPage)
            /\ (n = 0) => resp.payload.pages = 0
            /\ AskedPage > resp.payload.pages => Len(resp.payload.books) = 0
            /\ db = pre

\* three books in pages of two: page 3 is asked for, one past the last
C14_Witness ==
    /\ req.op = "get_books" /\ Cardinality(DOMAIN pre.book) = 3
    /\ AskedPerPage = 2 /\ AskedPage = 3
    /\ resp.payload.pages = 2 /\ Len(resp.payload.books) = 0

\* the position of book b in the list ordered by primary key
PkPosition(b, order) ==
    IF order = "asc" THEN 1 + Cardinality({c \in DOMAIN pre.book : c < b})
    ELSE 1 + Cardinality({c \in DOMAIN pre.book : c > b})

\* C15: GET /api/books with page k >= 1 and page size p >= 1 returns the rows
\* at positions (k-1)*p+1 .. min(k*p, n) of the ordered book list; ordered by
\* id, the pages 1..pages are disjoint and together the whole list: every book
\* is on exactly one page, at the place its position gives.
C15_PageWindow ==
    (req.op = "get_books" /\ AskedPage >= 1 /\ AskedPerPage >= 1) =>
        LET n == Cardinality(DOMAIN pre.book)
            k == AskedPage
            pp == AskedPerPage
            sort_by == IF "sort" \in req.data.keys THEN req.data.sort ELSE "id"
            order == IF "order" \in req.data.keys THEN req.data.order ELSE "asc"
            column == IF sort_by \in {"title", "year", "created_at"} THEN sort_by ELSE "id"
            list == OrderBy(pre, DOMAIN pre.book, column, order)
            lo == (k - 1) * pp + 1
            hi == IF k * pp < n THEN k * pp ELSE n
            got == BookIdsOf(resp)
            PageOf(j) == BookIdsOf(get_books(pre, [req.data EXCEPT
                                        !.keys = @ \cup {"page", "per_page"},
                                        !.page = j, !.per_page = pp]).resp)
        IN  /\ Len(got) = (IF hi >= lo THEN hi - lo + 1 ELSE 0)
            /\ \A i \in 1..Len(got) : got[i] = list[lo + i - 1]
            /\ \A i \in 1..Len(got) : resp.payload.books[i] = Book_to_dict(pre, got[i])
            /\ column = "id" =>
                \A b \in DOMAIN pre.book :
                    \A j \in 1..resp.payload.pages : \A i \in 1..pp :
                        (i <= Len(PageOf(j)) /\ PageOf(j)[i] = b)
                            <=> (j - 1) * pp + i = PkPosition(b, order)

\* the second page of three books in pages of two, ordered by id
C15_Witness ==
    /\ req.op = "get_books" /\ Cardinality(DOMAIN pre.book) = 3
    /\ AskedPage = 2 /\ AskedPerPage = 2
    /\ "sort" \in req.data.keys /\ req.data.sort = "id" /\ req.data.order = "asc"
    /\ Len(resp.payload.books) = 1
    /\ resp.payload.books[1].id = Max(DOMAIN pre.book)

\* C16: in every GET /api/books response has_prev is true exactly when the
\* reported page is above 1, and has_next exactly when the reported page is
\* below the reported pages, which is exactly when the next page holds a row.
C16_PageFlags ==
    (req.op = "get_books") =>
        LET next == get_books(pre, [req.data EXCEPT
                                        !.keys = @ \cup {"page", "per_page"},
                                        !.page = resp.payload.page + 1,
                                        !.per_page = AskedPerPage]).resp
        IN  /\ resp.payload.has_prev <=> resp.payload.page > 1
            /\ resp.payload.has_next <=> resp.payload.page < resp.payload.pages
            /\ resp.payload.has_next <=> Len(next.payload.books) >= 1
            /\ (resp.payload.page = resp.payload.pages) => ~resp.payload.has_next
            /\ (resp.payload.page = 1) => ~resp.payload.has_prev

\* the last page of several: it holds rows, has a page before it and none after
C16_Witness ==
    /\ req.op = "get_books" /\ resp.payload.page = resp.payload.pages
    /\ resp.payload.page > 1 /\ Len(resp.payload.books) >= 1
    /\ resp.payload.has_prev /\ ~resp.payload.has_next

\* a list request whose sort value is outside the allow-list
UnknownSort ==
    /\ req.op \in {"get_books", "get_books_sorted"}
    /\ "sort" \in req.data.keys /\ req.data.sort \notin {"id", "title", "year", "created_at"}

\* C17 as stated: with a sort value outside the allow-list the books come in
\* ascending primary-key order.
C17_FallbackAscending ==
    UnknownSort =>
        \A i, j \in 1..Len(resp.payload.books) :
            i < j => resp.payload.books[i].id < resp.payload.books[j].id

\* C17: with a sort value outside the allow-list the books are ordered by
\* primary key, ascending when order is "asc" and descending for every other
\* order value; /api/books-with-sorting returns all of them, and the same
\* store and request give the same answer.
C17_FallbackPrimaryKey ==
    UnknownSort =>
        /\ \A i, j \in 1..Len(resp.payload.books) :
            i < j => IF req.data.order = "asc"
                     THEN resp.payload.books[i].id < resp.payload.books[j].id
                     ELSE resp.payload.books[i].id > resp.payload.books[j].id
        /\ req.op = "get_books_sorted" =>
            {resp.payload.books[i].id : i \in 1..Len(resp.payload.books)} = DOMAIN pre.book
        /\ resp = (IF req.op = "get_books" THEN get_books(pre, req.data)
                   ELSE get_books_sorted(pre, req.data)).resp

\* sort=isbn over books whose title order is not their id order
C17_Witness ==
    /\ UnknownSort /\ Len(resp.payload.books) >= 2
    /\ \E a, b \in DOMAIN pre.book :
        a < b /\ TitleRank(pre.book[a].title) > TitleRank(pre.book[b].title)

\* t holds s as a run of consecutive characters
Contains(t, s) == \E i \in 0..(Len(t) - Len(s)) : SubSeq(t, i + 1, i + Len(s)) = s

\* C18: GET /api/books/search returns exactly the books whose title contains
\* q and whose author's name contains author, letter case aside, each test
\* applying when its parameter is not blank; with both blank it returns every
\* book, and count is the number of books returned.
C18_SearchSubstring ==
    (req.op = "search_books") =>
        LET q == strip(Chars(req.data.q))
            author == strip(Chars(req.data.author))
            wanted == {b \in DOMAIN pre.book :
                        /\ q # <<>> => Contains(Lower(Chars(pre.book[b].title)), Lower(q))
                        /\ author # <<>> =>
                            Contains(Lower(Chars(pre.author[pre.book[b].author_id].name)),
                                     Lower(author))}
        IN  /\ resp.status = 200 /\ resp.success
            /\ {resp.payload.books[i].id : i \in 1..Len(resp.payload.books)} = wanted
            /\ resp.payload.count = Len(resp.payload.books)
            /\ (q = <<>> /\ author = <<>>) => resp.payload.count = Cardinality(DOMAIN pre.book)

\* C19: every request to a JSON route of part-4 ends either in success with
\* status 200 (201 for a create) or in the error envelope with status 400 or
\* 404; none ends in an unhandled exception or another status.
C19_ResponseEnvelope ==
    (part = "part-4" /\ req.op \notin {"none", "init_db"}) =>
        /\ resp.kind = "json"
        /\ \/ /\ resp.success
              /\ resp.status = (IF req.op \in {"create_author", "create_book"} THEN 201 ELSE 200)
           \/ /\ ~resp.success /\ resp.error # None
              /\ resp.status \in {400, 404}

\* C20: init_db of parts 3 and 4 leaves every non-empty table as it is, so it
\* changes nothing in a store whose tables are all non-empty, and a second run
\* right after a first leaves the store the first run left.
C20_SeedOnlyWhenEmpty ==
    /\ part = "part-4" =>
        \A t1, t2 \in Times :
            LET once == init_db_4(db, t1).db
            IN  /\ DOMAIN db.author # {} => once.author = db.author
                /\ DOMAIN db.book # {} => once.book = db.book
                /\ init_db_4(once, t2).db = once
    /\ part = "part-3" =>
        LET once == init_db_3(db).db
        IN  /\ DOMAIN db.course # {} => once.course = db.course
            /\ DOMAIN db.teacher # {} => once.teacher = db.teacher
            /\ DOMAIN db.student # {} => once.student = db.student
            /\ init_db_3(once).db = once
    /\ (/\ req.op = "init_db" /\ part = "part-4"
        /\ DOMAIN pre.author # {} /\ DOMAIN pre.book # {}) => db = pre
    /\ (/\ req.op = "init_db" /\ part = "part-3"
        /\ DOMAIN pre.course # {} /\ DOMAIN pre.teacher # {} /\ DOMAIN pre.student # {}) =>
            db = pre

\* the process is started again on a store that requests have changed: one
\* whose tables all hold rows, or one whose students were all deleted
C20_Witness ==
    /\ req.op = "init_db" /\ served >= 1
    /\ \/ /\ part = "part-4" /\ Cardinality(DOMAIN pre.book) = 3 /\ db = pre
       \/ /\ part = "part-3" /\ DOMAIN pre.student = {} /\ DOMAIN pre.teacher # {}
          /\ DOMAIN db.student # {} /\ db.teacher = pre.teacher

\* C21: no form submission to /add, /edit/<id>, /add-teacher,
\* /edit-teacher/<id> or /add-course of part-3, or to /add or /edit/<id> of
\* part-6, ends in an unhandled exception: a missing field, a duplicate email,
\* a course_id naming no course and an unknown id are all answered with a
\* redirect or an error page.
C21_HtmlErrorsHandled ==
    (req.op \in {"add_student", "edit_student", "add_teacher", "edit_teacher", "add_course",
                 "add_product", "edit_product"}) =>
        /\ resp.kind # "exception"
        /\ resp.kind \in {"redirect", "html"}

\* C22: every course row has a non-empty name, and POST /add-course with an
\* empty name creates no course.
C22_CourseNameNonEmpty ==
    /\ \A c \in DOMAIN db.course : db.course[c].name \notin {None, ""}
    /\ (req.op = "add_course" /\ "name" \in req.data.keys /\ req.data.name = "") => db = pre

\* C24: in every store reachable by creates and updates every author row has
\* a non-empty name and every book row a non-empty title.
C24_RequiredFieldsKept ==
    /\ \A a \in DOMAIN db.author : db.author[a].name \notin {None, ""}
    /\ \A b \in DOMAIN db.book : db.book[b].title \notin {None, ""}

\* C25: init_db returns without raising from every store the routes and a
\* restart of the process can leave.
C25_InitDbReturns ==
    (req.op = "init_db") => (resp.kind # "exception" /\ pc = "serving")

\* the value of the sort field in book i of a list response; a null year is
\* below every year
FieldOf(i, field) ==
    CASE field = "title" -> TitleRank(resp.payload.books[i].title)
      [] field = "year" -> resp.payload.books[i].year
      [] field = "created_at" -> resp.payload.books[i].created_at
      [] OTHER -> resp.payload.books[i].id

NonDecreasing(field) ==
    \A i, j \in 1..Len(resp.payload.books) : i < j => FieldOf(i, field) <= FieldOf(j, field)

NonIncreasing(field) ==
    \A i, j \in 1..Len(resp.payload.books) : i < j => FieldOf(i, field) >= FieldOf(j, field)

\* C23: GET /api/books with a sort field of the allow-list returns the books
\* in non-decreasing order of the field for order=asc and for no order, in
\* non-increasing order for order=desc, and in one of the two for every other
\* order value.
C23_SortDirection ==
    (req.op = "get_books") =>
        LET field == IF "sort" \in req.data.keys THEN req.data.sort ELSE "id"
            order == IF "order" \in req.data.keys THEN req.data.order ELSE "asc"
        IN  field \in {"id", "title", "year", "created_at"} =>
                /\ order = "asc" => NonDecreasing(field)
                /\ order = "desc" => NonIncreasing(field)
                /\ NonDecreasing(field) \/ NonIncreasing(field)

\* every book is listed by year, descending, and the years differ
C23_Witness ==
    /\ req.op = "get_books" /\ "sort" \in req.data.keys /\ "page" \notin req.data.keys
    /\ req.data.sort = "year" /\ req.data.order = "desc"
    /\ Len(resp.payload.books) = 3
    /\ resp.payload.books[1].year > resp.payload.books[3].year

\* the book rows whose author_id is a
BooksReferencing(d, a) == {b \in DOMAIN d.book : d.book[b].author_id = a}

\* C28: in every reachable store the books_count that GET /api/authors and
\* GET /api/authors/<id> report for an author is the number of book rows
\* whose author_id is the author's id, and the books of GET /api/authors/<id>
\* are exactly those rows; the responses observed say the same.
C28_BooksCount ==
    /\ \A a \in DOMAIN db.author :
        /\ get_authors(db).resp.payload.authors[a].books_count
              = Cardinality(BooksReferencing(db, a))
        /\ get_author(db, a).resp.payload.author.books_count
              = Cardinality(BooksReferencing(db, a))
        /\ DOMAIN get_author(db, a).resp.payload.books = BooksReferencing(db, a)
        /\ \A b \in BooksReferencing(db, a) :
              get_author(db, a).resp.payload.books[b].id = b
    /\ (req.op = "get_authors") =>
        /\ DOMAIN resp.payload.authors = DOMAIN pre.author
        /\ \A a \in DOMAIN pre.author :
              resp.payload.authors[a].books_count = Cardinality(BooksReferencing(pre, a))
    /\ (req.op = "get_author" /\ resp.status = 200) =>
        /\ resp.payload.author.books_count = Cardinality(BooksReferencing(pre, req.id))
        /\ DOMAIN resp.payload.books = BooksReferencing(pre, req.id)

\* an author is read who holds two books, one more than init_db gave, while
\* another author holds a book
C28_Witness ==
    /\ req.op = "get_author" /\ resp.status = 200
    /\ resp.payload.author.books_count = 2
    /\ \E b \in DOMAIN pre.book : pre.book[b].author_id # req.id

\* C29: in every response of GET /api/books and GET /api/books-with-pagination
\* the number of books is at most the per_page reported, and the books are the
\* window that the reported page and per_page select from the ordered list.
C29_ReportedPageUsed ==
    (req.op \in {"get_books", "get_books_paginated"}) =>
        LET n == Cardinality(DOMAIN pre.book)
            lo == (resp.payload.page - 1) * resp.payload.per_page + 1
            hi == IF resp.payload.page * resp.payload.per_page < n
                  THEN resp.payload.page * resp.payload.per_page ELSE n
        IN  /\ Len(resp.payload.books) <= resp.payload.per_page
            /\ Len(resp.payload.books) = (IF hi >= lo THEN hi - lo + 1 ELSE 0)

\* C30: a successful delete removes its target and nothing else: a book alone;
\* an author with exactly the books that reference it; one student, teacher or
\* product.
C30_DeleteFrame ==
    /\ (req.op = "delete_book" /\ resp.status = 200) =>
        /\ DOMAIN db.book = DOMAIN pre.book \ {req.id} /\ req.id \in DOMAIN pre.book
        /\ \A b \in DOMAIN db.book : db.book[b] = pre.book[b]
        /\ db.author = pre.author
    /\ (req.op = "delete_author" /\ resp.status = 200) =>
        /\ DOMAIN db.author = DOMAIN pre.author \ {req.id} /\ req.id \in DOMAIN pre.author
        /\ \A a \in DOMAIN db.author : db.author[a] = pre.author[a]
        /\ DOMAIN db.book = DOMAIN pre.book \ BooksReferencing(pre, req.id)
        /\ \A b \in DOMAIN db.book : db.book[b] = pre.book[b]
    /\ (req.op = "delete_student" /\ resp.kind = "redirect") =>
        /\ DOMAIN db.student = DOMAIN pre.student \ {req.id} /\ req.id \in DOMAIN pre.student
        /\ \A x \in DOMAIN db.student : db.student[x] = pre.student[x]
        /\ db.teacher = pre.teacher /\ db.course = pre.course
    /\ (req.op = "delete_teacher" /\ resp.kind = "redirect") =>
        /\ DOMAIN db.teacher = DOMAIN pre.teacher \ {req.id} /\ req.id \in DOMAIN pre.teacher
        /\ \A x \in DOMAIN db.teacher : db.teacher[x] = pre.teacher[x]
        /\ db.student = pre.student /\ db.course = pre.course
    /\ (req.op = "delete_product" /\ resp.kind = "redirect") =>
        /\ DOMAIN db.product = DOMAIN pre.product \ {req.id} /\ req.id \in DOMAIN pre.product
        /\ \A x \in DOMAIN db.product : db.product[x] = pre.product[x]

\* one of three books is deleted, or an author with a book while a book of
\* another author stays, or one of two students
C30_Witness ==
    \/ /\ req.op = "delete_book" /\ resp.status = 200 /\ Cardinality(DOMAIN pre.book) = 3
    \/ /\ req.op = "delete_author" /\ resp.status = 200
       /\ BooksReferencing(pre, req.id) # {} /\ DOMAIN db.book # {}
       /\ Cardinality(DOMAIN pre.author) = 3
    \/ /\ req.op = "delete_student" /\ resp.kind = "redirect"
       /\ Cardinality(DOMAIN pre.student) = 2

\* both requests of SpecConc have been answered
AllDone == \A t \in Workers : threads[t].at = "done"

\* C26: however a POST /api/books and a DELETE /api/authors/<id> of the book's
\* author interleave, the store they leave holds no book whose author_id names
\* a missing author.
C26_NoOrphanUnderRace ==
    (/\ AllDone
     /\ \E t, u \in Workers :
          /\ threads[t].op = "create_book" /\ threads[u].op = "delete_author"
          /\ threads[t].data.author_id = threads[u].id) =>
        \A b \in DOMAIN db.book : db.book[b].author_id \in DOMAIN db.author

\* C27: however two POST /api/books with the same non-null isbn interleave, at
\* most one book holds that isbn afterwards and the request that created no
\* row is answered 400 "ISBN already exists".
C27_DuplicateIsbnUnderRace ==
    (/\ AllDone
     /\ \A t \in Workers : threads[t].op = "create_book"
     /\ threads[1].data.isbn = threads[2].data.isbn
     /\ threads[1].data.isbn # None) =>
        /\ Cardinality({b \in DOMAIN db.book : db.book[b].isbn = threads[1].data.isbn}) <= 1
        /\ \A t \in Workers :
              threads[t].resp.status # 201 =>
                  /\ threads[t].resp.kind = "json" /\ threads[t].resp.status = 400
                  /\ threads[t].resp.error = "ISBN already exists"

====
